---- MODULE Spec2Model ----
(***************************************************************************)
(* The service, operation and resource shapes of atelier-core              *)
(* (model/shapes/services.rs): every member of a shape is a Member slot    *)
(* holding an optional NodeValue, and the accessors generated by the       *)
(* optional_member! and array_member! macros read and mutate those slots.  *)
(***************************************************************************)
EXTENDS Integers, Sequences, FiniteSets, TLC

VARIABLES shape, lastOp, panic

vars == <<shape, lastOp, panic>>

(***************************************************************************)
(* Bounds of the model.                                                    *)
(***************************************************************************)
\* greatest number of NodeValues (scalars, array elements, map entries) a shape holds
MaxValues == 3
\* greatest length of the slice handed to an append call
MaxAppend == 2

ShapeIDs == {"ns#A", "ns#B"}
Identifiers == {"id", "key"}
Versions == {"v1", "v2"}

RECURSIVE SeqsUpTo(_, _)
SeqsUpTo(S, n) ==
    IF n = 0 THEN {<<>>}
    ELSE LET shorter == SeqsUpTo(S, n - 1)
         IN  shorter \cup {Append(q, e) : q \in {p \in shorter : Len(p) = n - 1}, e \in S}

Slices == SeqsUpTo(ShapeIDs, MaxAppend)

(***************************************************************************)
(* Outcome of a call: it returns a value or it panics.                     *)
(***************************************************************************)
Ok(v) == [panic |-> "none", ret |-> v]
Panic(what) == [panic |-> what]
invalid_value_variant(expecting) == Panic("invalid_value_variant")

\* Option<T>: None is the empty sequence, Some(v) the one-element sequence
None == <<>>
Some(v) == <<v>>

(***************************************************************************)
(* NodeValue and Key: the tagged values a member holds.                    *)
(***************************************************************************)
NodeValueString(s) == [tag |-> "String", s |-> s]
NodeValueShapeID(id) == [tag |-> "ShapeID", id |-> id]
NodeValueArray(vs) == [tag |-> "Array", vs |-> vs]
NodeValueObject(kvs) == [tag |-> "Object", kvs |-> kvs]

\* From<Identifier> for Key, and Key::as_identifier
KeyIdentifier(id) == [kind |-> "Identifier", id |-> id]
as_identifier(k) == IF k.kind = "Identifier" THEN Some(k.id) ELSE None
\* NodeValue::as_reference
as_reference(v) == IF v.tag = "ShapeID" THEN Some(v.id) ELSE None

(***************************************************************************)
(* Member: a named slot with an optional value.                            *)
(***************************************************************************)
MemberNew(name) == [name |-> name, value |-> None]
MemberWithValue(name, v) == [name |-> name, value |-> Some(v)]
value(m) == m.value
set_value(m, v) == [m EXCEPT !.value = Some(v)]
unset_value(m) == [m EXCEPT !.value = None]

(***************************************************************************)
(* Default construction of the three shapes.                               *)
(***************************************************************************)
DefaultService ==
    [kind |-> "Service",
     version |-> MemberNew("version"),
     operations |-> MemberWithValue("operations", NodeValueArray(<<>>)),
     resources |-> MemberWithValue("resources", NodeValueArray(<<>>))]

DefaultOperation ==
    [kind |-> "Operation",
     input |-> MemberNew("input"),
     output |-> MemberNew("output"),
     errors |-> MemberWithValue("errors", NodeValueArray(<<>>))]

\* DefaultResource with identifiers built by Member::new instead of with_value
DefaultResourceAbsentIdentifiers ==
    [kind |-> "Resource",
     identifiers |-> MemberNew("identifiers"),
     create |-> MemberNew("create"),
     put |-> MemberNew("put"),
     read |-> MemberNew("read"),
     update |-> MemberNew("update"),
     delete |-> MemberNew("delete"),
     list |-> MemberNew("list"),
     operations |-> MemberWithValue("operations", NodeValueArray(<<>>)),
     collection_operations |-> MemberWithValue("collection_operations", NodeValueArray(<<>>)),
     resources |-> MemberWithValue("resources", NodeValueArray(<<>>))]

DefaultResource ==
    [kind |-> "Resource",
     identifiers |-> MemberWithValue("identifiers", NodeValueObject({})),
     create |-> MemberNew("create"),
     put |-> MemberNew("put"),
     read |-> MemberNew("read"),
     update |-> MemberNew("update"),
     delete |-> MemberNew("delete"),
     list |-> MemberNew("list"),
     operations |-> MemberWithValue("operations", NodeValueArray(<<>>)),
     collection_operations |-> MemberWithValue("collection_operations", NodeValueArray(<<>>)),
     resources |-> MemberWithValue("resources", NodeValueArray(<<>>))]

Kinds == {"Service", "Operation", "Resource"}

\* the members each impl block instantiates optional_member! for
OptionalMembers(kind) ==
    CASE kind = "Service" -> {}
      [] kind = "Operation" -> {"input", "output"}
      [] kind = "Resource" -> {"create", "put", "read", "update", "delete", "list"}

\* the members each impl block instantiates array_member! for
ArrayMembers(kind) ==
    CASE kind = "Service" -> {"operations", "resources"}
      [] kind = "Operation" -> {"errors"}
      [] kind = "Resource" -> {"operations", "collection_operations", "resources"}

(***************************************************************************)
(* optional_member!                                                        *)
(***************************************************************************)
has(s, m) == value(s[m]) # None

member(s, m) ==
    LET v == value(s[m])
    IN  IF v = None THEN Ok(None)
        ELSE IF v[1].tag = "ShapeID" THEN Ok(Some(v[1].id))
        ELSE invalid_value_variant("ShapeID")

\* setter that stores only into an absent member
setterIfAbsent(s, m, id) ==
    IF has(s, m) THEN Ok(s)
    ELSE Ok([s EXCEPT ![m] = set_value(s[m], NodeValueShapeID(id))])

\* setter that stores the identifier's text as NodeValue::String
setterAsString(s, m, id) == Ok([s EXCEPT ![m] = set_value(s[m], NodeValueString(id))])

setter(s, m, id) == Ok([s EXCEPT ![m] = set_value(s[m], NodeValueShapeID(id))])

\* unsetter that leaves the member as it is
unsetterNoop(s, m) == Ok(s)

unsetter(s, m) == Ok([s EXCEPT ![m] = unset_value(s[m])])

(***************************************************************************)
(* array_member!                                                           *)
(***************************************************************************)
has_fn(s, c) ==
    LET v == value(s[c])
    IN  IF v = None THEN invalid_value_variant("Array")
        ELSE IF v[1].tag = "Array" THEN Ok(v[1].vs # <<>>)
        ELSE invalid_value_variant("Array")

collection(s, c) ==
    LET v == value(s[c])
    IN  IF v = None THEN invalid_value_variant("Array")
        ELSE IF v[1].tag = "Array"
             THEN IF \A i \in 1..Len(v[1].vs) : v[1].vs[i].tag = "ShapeID"
                  THEN Ok([i \in 1..Len(v[1].vs) |-> v[1].vs[i].id])
                  ELSE invalid_value_variant("ShapeID")
        ELSE invalid_value_variant("Array")

\* add that skips an element the collection already holds
add_fnUnique(s, c, id) ==
    LET v == value(s[c])
    IN  IF v = None THEN invalid_value_variant("Array")
        ELSE IF v[1].tag = "Array"
             THEN IF \E i \in 1..Len(v[1].vs) : v[1].vs[i] = NodeValueShapeID(id)
                  THEN Ok(s)
                  ELSE Ok([s EXCEPT ![c].value[1].vs = Append(@, NodeValueShapeID(id))])
        ELSE invalid_value_variant("Array")

add_fn(s, c, id) ==
    LET v == value(s[c])
    IN  IF v = None THEN invalid_value_variant("Array")
        ELSE IF v[1].tag = "Array"
             THEN Ok([s EXCEPT ![c].value[1].vs = Append(@, NodeValueShapeID(id))])
        ELSE invalid_value_variant("Array")

\* append that pushes the slice back to front
append_fnReversed(s, c, ids) ==
    LET v == value(s[c])
    IN  IF v = None THEN invalid_value_variant("Array")
        ELSE IF v[1].tag = "Array"
             THEN Ok([s EXCEPT ![c].value[1].vs =
                         @ \o [i \in 1..Len(ids) |-> NodeValueShapeID(ids[Len(ids) + 1 - i])]])
        ELSE invalid_value_variant("Array")

append_fn(s, c, ids) ==
    LET v == value(s[c])
    IN  IF v = None THEN invalid_value_variant("Array")
        ELSE IF v[1].tag = "Array"
             THEN Ok([s EXCEPT ![c].value[1].vs =
                         @ \o [i \in 1..Len(ids) |-> NodeValueShapeID(ids[i])]])
        ELSE invalid_value_variant("Array")

remove_fn(s, c, id) ==
    LET v == value(s[c])
    IN  IF v = None THEN invalid_value_variant("Array")
        ELSE IF v[1].tag = "Array"
             THEN LET id_value == NodeValueShapeID(id)
                      retain(e) == e = id_value
                  IN  Ok([s EXCEPT ![c].value[1].vs = SelectSeq(@, retain)])
        ELSE invalid_value_variant("Array")

(***************************************************************************)
(* impl Service                                                            *)
(***************************************************************************)
\* version that falls back to the empty string on an absent value
versionOrEmpty(s) ==
    LET v == value(s.version)
    IN  IF v = None THEN Ok("")
        ELSE IF v[1].tag = "String" THEN Ok(v[1].s)
        ELSE invalid_value_variant("String")

version(s) ==
    LET v == value(s.version)
    IN  IF v = None THEN Panic("unwrap_none")
        ELSE IF v[1].tag = "String" THEN Ok(v[1].s)
        ELSE invalid_value_variant("String")

set_version(s, ver) == Ok([s EXCEPT !.version = set_value(s.version, NodeValueString(ver))])

(***************************************************************************)
(* impl Resource: the identifiers map, a set of (Key, NodeValue) pairs     *)
(***************************************************************************)
has_identifiers(s) ==
    LET v == value(s.identifiers)
    IN  IF v = None THEN invalid_value_variant("Object")
        ELSE IF v[1].tag = "Object" THEN Ok(v[1].kvs # {})
        ELSE invalid_value_variant("Object")

identifiers(s) ==
    LET v == value(s.identifiers)
    IN  IF v = None THEN invalid_value_variant("Object")
        ELSE IF v[1].tag = "Object"
             THEN IF \A kv \in v[1].kvs : as_identifier(kv[1]) # None /\ as_reference(kv[2]) # None
                  THEN Ok({<<as_identifier(kv[1])[1], as_reference(kv[2])[1]>> : kv \in v[1].kvs})
                  ELSE Panic("unwrap_none")
        ELSE invalid_value_variant("Object")

\* add_identifier that keeps the entry a key already has
add_identifierKeepExisting(s, id, sh) ==
    LET v == value(s.identifiers)
    IN  IF v = None THEN invalid_value_variant("Object")
        ELSE IF v[1].tag = "Object"
             THEN LET key == KeyIdentifier(id)
                  IN  IF \E kv \in v[1].kvs : kv[1] = key
                      THEN Ok(s)
                      ELSE Ok([s EXCEPT !.identifiers.value[1].kvs =
                                  @ \cup {<<key, NodeValueShapeID(sh)>>}])
        ELSE invalid_value_variant("Object")

add_identifier(s, id, sh) ==
    LET v == value(s.identifiers)
    IN  IF v = None THEN invalid_value_variant("Object")
        ELSE IF v[1].tag = "Object"
             THEN LET key == KeyIdentifier(id)
                  IN  Ok([s EXCEPT !.identifiers.value[1].kvs =
                              {kv \in @ : kv[1] # key} \cup {<<key, NodeValueShapeID(sh)>>}])
        ELSE invalid_value_variant("Object")

remove_identifier(s, id) ==
    LET v == value(s.identifiers)
    IN  IF v = None THEN invalid_value_variant("Object")
        ELSE IF v[1].tag = "Object"
             THEN LET key == KeyIdentifier(id)
                  IN  Ok([s EXCEPT !.identifiers.value[1].kvs = {kv \in @ : kv[1] = key}])
        ELSE invalid_value_variant("Object")

(***************************************************************************)
(* Number of values a shape holds, which the model bounds.                 *)
(***************************************************************************)
ValueSize(v) ==
    CASE v.tag = "Array" -> Len(v.vs)
      [] v.tag = "Object" -> Cardinality(v.kvs)
      [] OTHER -> 1

MemberSize(m) == IF value(m) = None THEN 0 ELSE ValueSize(value(m)[1])

RECURSIVE SizeOver(_, _)
SizeOver(s, names) ==
    IF names = {} THEN 0
    ELSE LET n == CHOOSE n \in names : TRUE
         IN  MemberSize(s[n]) + SizeOver(s, names \ {n})

Size(s) == SizeOver(s, DOMAIN s \ {"kind"})

(***************************************************************************)
(* The state machine: one shape, built by default construction and then    *)
(* driven through its public accessors.  lastOp records the latest call,   *)
(* panic whether that call panicked (a panic ends the run).                *)
(***************************************************************************)
Call(op, m, args) == [op |-> op, member |-> m, args |-> args]

Default(kind) ==
    CASE kind = "Service" -> DefaultService
      [] kind = "Operation" -> DefaultOperation
      [] kind = "Resource" -> DefaultResource

Init ==
    /\ \E kind \in Kinds : shape = Default(kind)
    /\ lastOp = Call("default", "", <<>>)
    /\ panic = "none"

\* the effect of a &mut self call whose outcome is r
Apply(r) ==
    /\ panic' = r.panic
    /\ shape' = IF r.panic = "none" THEN r.ret ELSE shape

Version ==
    /\ panic = "none"
    /\ shape.kind = "Service"
    /\ panic' = version(shape).panic
    /\ lastOp' = Call("version", "version", <<>>)
    /\ UNCHANGED shape

SetVersion ==
    /\ panic = "none"
    /\ shape.kind = "Service"
    /\ \E ver \in Versions :
        /\ has(shape, "version") \/ Size(shape) < MaxValues
        /\ Apply(set_version(shape, ver))
        /\ lastOp' = Call("set_version", "version", <<ver>>)

Setter ==
    /\ panic = "none"
    /\ \E m \in OptionalMembers(shape.kind), id \in ShapeIDs :
        /\ has(shape, m) \/ Size(shape) < MaxValues
        /\ Apply(setter(shape, m, id))
        /\ lastOp' = Call("set", m, <<id>>)

Unsetter ==
    /\ panic = "none"
    /\ \E m \in OptionalMembers(shape.kind) :
        /\ Apply(unsetter(shape, m))
        /\ lastOp' = Call("unset", m, <<>>)

AddFn ==
    /\ panic = "none"
    /\ Size(shape) < MaxValues
    /\ \E c \in ArrayMembers(shape.kind), id \in ShapeIDs :
        /\ Apply(add_fn(shape, c, id))
        /\ lastOp' = Call("add", c, <<id>>)

AppendFn ==
    /\ panic = "none"
    /\ \E c \in ArrayMembers(shape.kind), ids \in Slices :
        /\ Size(shape) + Len(ids) <= MaxValues
        /\ Apply(append_fn(shape, c, ids))
        /\ lastOp' = Call("append", c, <<ids>>)

RemoveFn ==
    /\ panic = "none"
    /\ \E c \in ArrayMembers(shape.kind), id \in ShapeIDs :
        /\ Apply(remove_fn(shape, c, id))
        /\ lastOp' = Call("remove", c, <<id>>)

AddIdentifier ==
    /\ panic = "none"
    /\ shape.kind = "Resource"
    /\ \E id \in Identifiers, sh \in ShapeIDs :
        /\ \/ \E kv \in identifiers(shape).ret : kv[1] = id
           \/ Size(shape) < MaxValues
        /\ Apply(add_identifier(shape, id, sh))
        /\ lastOp' = Call("add_identifier", "identifiers", <<id, sh>>)

RemoveIdentifier ==
    /\ panic = "none"
    /\ shape.kind = "Resource"
    /\ \E id \in Identifiers :
        /\ Apply(remove_identifier(shape, id))
        /\ lastOp' = Call("remove_identifier", "identifiers", <<id>>)

Next ==
    \/ Version
    \/ SetVersion
    \/ Setter
    \/ Unsetter
    \/ AddFn
    \/ AppendFn
    \/ RemoveFn
    \/ AddIdentifier
    \/ RemoveIdentifier

Spec == Init /\ [][Next]_vars

(***************************************************************************)
(* Properties                                                              *)
(***************************************************************************)
\* the members of a shape other than m are the same in s and t
SameExcept(s, t, m) == \A n \in DOMAIN s \ {m} : t[n] = s[n]

RECURSIVE AddAll(_, _, _)
\* add(r1); ...; add(rn) applied in that order
AddAll(s, c, ids) ==
    IF ids = <<>> THEN s
    ELSE AddAll(add_fn(s, c, Head(ids)).ret, c, Tail(ids))

\* C1: remove(x) on an ordered-collection member deletes every element equal
\* to x and keeps every other element in its original relative order.
C1_RemoveDeletesEqualKeepsOthers ==
    [][lastOp'.op = "remove" =>
        LET c == lastOp'.member
            x == lastOp'.args[1]
            Other(e) == e # x
        IN  /\ panic' = "none"
            /\ collection(shape', c) = Ok(SelectSeq(collection(shape, c).ret, Other))
            /\ SameExcept(shape, shape', c)]_vars

\* C2: remove_identifier(id) deletes the entry whose key is id and leaves
\* every other entry of the identifiers mapping present and unchanged.
C2_RemoveIdentifierDeletesOnlyKey ==
    [][lastOp'.op = "remove_identifier" =>
        LET id == lastOp'.args[1]
        IN  /\ panic' = "none"
            /\ identifiers(shape') = Ok({kv \in identifiers(shape).ret : kv[1] # id})
            /\ SameExcept(shape, shape', "identifiers")]_vars

\* C3: a default-constructed shape has every collection member present and
\* empty and every scalar member absent.
C3_DefaultsEmptyOrAbsent ==
    lastOp.op = "default" =>
        /\ \A c \in ArrayMembers(shape.kind) :
            /\ value(shape[c]) = Some(NodeValueArray(<<>>))
            /\ has_fn(shape, c) = Ok(FALSE)
            /\ collection(shape, c) = Ok(<<>>)
        /\ \A m \in OptionalMembers(shape.kind) :
            /\ ~has(shape, m)
            /\ member(shape, m) = Ok(None)
        /\ shape.kind = "Service" => value(shape.version) = None
        /\ shape.kind = "Resource" =>
            /\ value(shape.identifiers) = Some(NodeValueObject({}))
            /\ has_identifiers(shape) = Ok(FALSE)
            /\ identifiers(shape) = Ok({})

C3_Witness ==
    /\ lastOp.op = "default"
    /\ shape.kind = "Resource"
    /\ has_identifiers(shape) = Ok(FALSE)
    /\ ~has(shape, "create")

\* C4: after set(x) the getter of an optional-reference member returns
\* Some(x) and has() is true, whatever the member held before; after
\* set_version(s), version() returns s.
C4_SetThenGet ==
    [][/\ lastOp'.op = "set" =>
            /\ panic' = "none"
            /\ has(shape', lastOp'.member)
            /\ member(shape', lastOp'.member) = Ok(Some(lastOp'.args[1]))
            /\ SameExcept(shape, shape', lastOp'.member)
       /\ lastOp'.op = "set_version" =>
            /\ panic' = "none"
            /\ version(shape') = Ok(lastOp'.args[1])
            /\ SameExcept(shape, shape', "version")]_vars

C4_Witness ==
    /\ lastOp.op = "set"
    /\ member(shape, lastOp.member) = Ok(Some(lastOp.args[1]))
    /\ \E m \in OptionalMembers(shape.kind) \ {lastOp.member} :
        has(shape, m) /\ member(shape, m) # member(shape, lastOp.member)

\* C5: unset() leaves an optional-reference member absent in any state, and
\* a second unset() changes nothing and does not fail.
C5_UnsetAbsentIdempotent ==
    [][lastOp'.op = "unset" =>
        /\ panic' = "none"
        /\ ~has(shape', lastOp'.member)
        /\ member(shape', lastOp'.member) = Ok(None)
        /\ SameExcept(shape, shape', lastOp'.member)
        /\ unsetter(shape', lastOp'.member) = Ok(shape')]_vars

C5_Witness ==
    /\ lastOp.op = "unset"
    /\ ~has(shape, lastOp.member)
    /\ \E m \in OptionalMembers(shape.kind) : has(shape, m)

\* C6: add(r) appends exactly one element at the end of an ordered-collection
\* member and changes no existing element, also when r already occurs in it.
C6_AddAppendsAtEnd ==
    [][lastOp'.op = "add" =>
        /\ panic' = "none"
        /\ collection(shape', lastOp'.member) =
               Ok(Append(collection(shape, lastOp'.member).ret, lastOp'.args[1]))
        /\ SameExcept(shape, shape', lastOp'.member)]_vars

C6_Witness ==
    /\ lastOp.op = "add"
    /\ LET seq == collection(shape, lastOp.member).ret
       IN  /\ Len(seq) >= 3
           /\ seq[Len(seq)] = lastOp.args[1]
           /\ \E i \in 1..(Len(seq) - 1) : seq[i] = seq[Len(seq)]
           /\ \E i \in 1..(Len(seq) - 1) : seq[i] # seq[Len(seq)]

\* C7: append([r1..rn]) yields the same state as add(r1); ...; add(rn): the
\* previous contents followed by r1..rn in the input's order.
C7_AppendIsRepeatedAdd ==
    [][lastOp'.op = "append" =>
        /\ panic' = "none"
        /\ shape' = AddAll(shape, lastOp'.member, lastOp'.args[1])
        /\ collection(shape', lastOp'.member) =
               Ok(collection(shape, lastOp'.member).ret \o lastOp'.args[1])]_vars

C7_Witness ==
    /\ lastOp.op = "append"
    /\ LET ids == lastOp.args[1]
           seq == collection(shape, lastOp.member).ret
       IN  /\ Len(ids) = 2
           /\ ids[1] # ids[2]
           /\ Len(seq) > Len(ids)
           /\ seq[Len(seq)] = ids[2]

KeysUnique(s) ==
    s.kind = "Resource" =>
        \A p, q \in value(s.identifiers)[1].kvs : p[1] = q[1] => p = q

\* C8: add_identifier(id, r) inserts or overwrites by key: afterward exactly
\* one entry has key id, its value is r, every other entry is unchanged, and
\* keys are unique in every state.
C8_AddIdentifierOverwritesByKey ==
    [][/\ KeysUnique(shape) /\ KeysUnique(shape')
       /\ lastOp'.op = "add_identifier" =>
            LET id == lastOp'.args[1]
                r == lastOp'.args[2]
                after == identifiers(shape')
            IN  /\ panic' = "none"
                /\ after.panic = "none"
                /\ {kv \in after.ret : kv[1] = id} = {<<id, r>>}
                /\ {kv \in after.ret : kv[1] # id} =
                       {kv \in identifiers(shape).ret : kv[1] # id}
                /\ has_identifiers(shape') = Ok(TRUE)
                /\ SameExcept(shape, shape', "identifiers")]_vars

C8_Witness ==
    /\ lastOp.op = "add_identifier"
    /\ Cardinality(identifiers(shape).ret) = 2
    /\ <<lastOp.args[1], lastOp.args[2]>> \in identifiers(shape).ret

\* C9: version() on a Service whose version is absent panics and leaves the
\* Service unchanged; once the version is present no operation clears it and
\* version() does not panic.
C9_VersionPanicsOnlyWhenNeverSet ==
    [][/\ lastOp'.op = "version" =>
            /\ shape' = shape
            /\ value(shape.version) = None => panic' = "unwrap_none"
            /\ value(shape.version) # None => panic' = "none"
       /\ (shape.kind = "Service" /\ value(shape.version) # None) =>
            /\ value(shape'.version) # None
            /\ version(shape').panic = "none"]_vars

C9_Witness ==
    /\ lastOp.op = "version"
    /\ panic = "unwrap_none"
    /\ value(shape.version) = None

\* C10: in every reachable state each ordered-collection member holds an
\* Array of ShapeID values, identifiers holds an Object, each optional
\* member is absent or a ShapeID and version is absent or a String, so no
\* accessor reaches an invalid_value_variant branch.
C10_TagInvariant ==
    /\ panic # "invalid_value_variant"
    /\ \A c \in ArrayMembers(shape.kind) :
        /\ value(shape[c]) # None
        /\ value(shape[c])[1].tag = "Array"
        /\ \A i \in 1..Len(value(shape[c])[1].vs) : value(shape[c])[1].vs[i].tag = "ShapeID"
        /\ has_fn(shape, c).panic = "none"
        /\ collection(shape, c).panic = "none"
    /\ \A m \in OptionalMembers(shape.kind) :
        /\ value(shape[m]) = None \/ value(shape[m])[1].tag = "ShapeID"
        /\ member(shape, m).panic = "none"
    /\ shape.kind = "Service" =>
        /\ value(shape.version) = None \/ value(shape.version)[1].tag = "String"
        /\ version(shape).panic # "invalid_value_variant"
    /\ shape.kind = "Resource" =>
        /\ value(shape.identifiers) # None
        /\ value(shape.identifiers)[1].tag = "Object"
        /\ has_identifiers(shape).panic = "none"
        /\ identifiers(shape).panic = "none"

C10_Witness ==
    /\ shape.kind = "Resource"
    /\ lastOp.op = "set"
    /\ has_identifiers(shape) = Ok(TRUE)
    /\ has_fn(shape, "resources") = Ok(TRUE)

====
